---- MODULE Spec2Model ----
(***************************************************************************)
(* Render orchestration of the CodeBuild pre-renderer (src/index.js,       *)
(* lines 1-361): prerenderPaths dispatches fetchPage for the urls of the   *)
(* input list, keeps at most maxSynchronous of them in flight after a      *)
(* warm-up page, hands every result to writeRenderedPage and finalizes     *)
(* when as many 'saved' events as urls have been seen.                     *)
(*                                                                         *)
(* Granularity: one action per synchronous segment of a callback that      *)
(* touches shared state.                                                   *)
(*   NewPage / Navigate / PageClose : completions of browser I/O inside    *)
(*                                    fetchPage                            *)
(*   WriteRenderedPage              : the .then(html => writeRenderedPage) *)
(*                                    callback up to its first await, or,  *)
(*                                    when it awaits nothing, up to and    *)
(*                                    including the synchronous emit of    *)
(*                                    'saved' and its two listeners        *)
(*   InlinerReturns / GzipReturns   : writeRenderedPage resumed after      *)
(*                                    `await inliner` / `await gzip`       *)
(*   Chain                          : the .then(renderNextUrl) callback    *)
(*   Abort, RequestFinishedThrows   : failOnUncaughtError                  *)
(* The segments of different pages interleave, but the promise             *)
(* continuations queued in a turn of the event loop (WriteRenderedPage,    *)
(* Chain, Abort) run before the browser can answer a call issued in that   *)
(* same turn: see ioReady.  A call that is rejected without a round trip   *)
(* to the browser settles in the turn it was made: see settlesNow.         *)
(***************************************************************************)
EXTENDS Integers, Sequences, FiniteSets, TLC

MaxLen == 4
MaxSync == 2
MaxPagesCap == 2
IsoMaxLen == 3
IsoMaxSync == 2
FaultMaxLen == 3
FaultMaxSync == 3
OutMaxLen == 2
OutMaxSync == 2
CfgMaxLen == 1
CfgMaxSync == 2
ReqMaxLen == 3
ReqMaxSync == 2
MaxRequests == 2

PageIds == {"/", "/blog"}

VARIABLES
  paths,           \* the identifier list returned by getPaths
  MAX_PAGES,       \* process.env.MAX_PAGES: <<>> when unset, <<k>> when set
  maxSynchronous,  \* process.env.MAX_SYNCHRONOUS || 50
  urls,            \* the list after urls.splice(Number(MAX_PAGES))
  browser,         \* "none", "open", "closed"
  pathPointer,     \* index of the last url being pre-rendered
  onceSaved,       \* the emitter.once('saved') listener is still registered
  st,              \* per list position: where its promise chain stands
  html,            \* per list position: what fetchPage returned
  cause,           \* per list position: what rejected its promise chain
  rendered,        \* the urls pushed by the 'saved' listener
  report,          \* the report object
  reportsEmitted,  \* number of times info(JSON.stringify(report)) ran
  closeCalls,      \* number of browser.close() calls
  exitStatus,      \* "running", "0", "1"
  doneEmits,       \* number of emitter.emit('done')
  dispatchLog,     \* list positions in the order fetchPage was called
  writeCalls,      \* per list position: writeRenderedPage invocations
  savedCount,      \* per list position: 'saved' events emitted
  written,         \* list positions whose page file is on disk: written, or
                   \* created by a writeFileSync that then threw
  savedLog,        \* list positions in the order their 'saved' was emitted
  pageOpens,       \* per list position: pages returned by browser.newPage()
  pageCloses,      \* per list position: completed page.close() calls
  sidecars,        \* list positions whose .json sidecar is on disk, whole
                   \* or created by a writeFileSync that then threw
  fetchArg,        \* per list position: the url its fetchPage call was given
  writeArg,        \* per list position: the url its writeRenderedPage call was given
  uncaught,        \* number of 'uncaughtException' events of the process
  closeRejected,   \* the promise of the browser.close() call of line 354
                   \* was rejected
  fresh,           \* list positions whose awaited browser call was issued in
                   \* the current turn of the event loop
  stage,           \* prerenderPaths: "start", "params", "paths", "failed"
  SITEMAP_PATH,    \* process.env.SITEMAP_PATH: "unset", "malformed", "valid"
  PATHS,           \* toCsv(process.env.PATHS)
  sites,           \* what sitemapper.fetch resolves to
  computeScriptHashes, \* process.env.COMPUTE_SCRIPT_HASHES == 'true'
  blockPatterns,   \* toCsv(process.env.BLOCK_PATTERNS), as a set of literals
  blockHosts,      \* toCsv(process.env.BLOCK_HOSTS), as a set
  requestPool,     \* the requests the pages of the site issue
  intercepted,     \* per list position: runs of the 'request' handler
  aborted,         \* per list position: request.abort() calls
  decisions,       \* the <<request, "continue" or "abort">> pairs so far
  mapStage,        \* "idle", "start", "inlining", "gzipping", "mapped"
  mapUrl,          \* the url given to writeRenderedPage, as tokens
  OUT_FOLDER,      \* process.env.OUT_FOLDER, as tokens
  gzip,            \* process.env.GZIP == 'true'
  inlineCss,       \* process.env.INLINE_CSS == 'true'
  fullPath,        \* fullPath of writeRenderedPage at line 110, as tokens
  outLog,          \* that call's writeFileSync calls and 'saved' event, in order
  fetchStage,      \* one fetchPage call alone: "idle", then the await it
                   \* stands at ("goto", "selector", "wait", "content",
                   \* "close"), then "returned" or "rejected"
  fetchGoto,       \* page.goto: "ok", "null" (no response), "throws"
  fetchStatus,     \* response.status()
  fetchSelector,   \* WAIT_FOR_SELECTOR: "unset", "found", "throws"
  fetchWaitMs,     \* Number(process.env.WAIT_MILLISECONDS) or 0
  fetchContent,    \* page.content(): "doc", "empty" (resolves ''), "throws"
  fetchClose,      \* page.close(): "ok", "throws"
  fetchResult      \* what that fetchPage call returned

histVars == <<savedLog, pageOpens, pageCloses, sidecars, fetchArg, writeArg,
              uncaught, closeRejected>>

cfgVars == <<stage, SITEMAP_PATH, PATHS, sites, computeScriptHashes>>

reqCfg == <<blockPatterns, blockHosts, requestPool>>

reqVars == <<reqCfg, intercepted, aborted, decisions>>

pathVars == <<mapStage, mapUrl, OUT_FOLDER, gzip, inlineCss, fullPath, outLog>>

fetchVars == <<fetchStage, fetchGoto, fetchStatus, fetchSelector, fetchWaitMs,
               fetchContent, fetchClose, fetchResult>>

vars == <<paths, MAX_PAGES, maxSynchronous, urls, browser, pathPointer,
          onceSaved, st, html, cause, rendered, report, reportsEmitted,
          closeCalls, exitStatus, doneEmits, dispatchLog, writeCalls,
          savedCount, written, fresh, histVars, cfgVars, reqVars, pathVars,
          fetchVars>>

----------------------------------------------------------------------------
(* Helpers *)

Min(a, b) == IF a < b THEN a ELSE b

BoundedSeq(S, n) == UNION {[1..k -> S] : k \in 0..n}

\* The identifier lists given to a run: the lists of at most MaxLen
\* identifiers that alternate between the two pages, so that neighbours
\* differ and, from length three on, an identifier stands at two
\* positions.  Scheduling never reads an identifier.
InputLists ==
  {s \in BoundedSeq(PageIds, MaxLen) :
     \A k \in DOMAIN s : s[k] = (IF k % 2 = 1 THEN "/" ELSE "/blog")}

\* a release loop that starts the held-back slots from the end of the list
DescendingFrom(lo, hi) ==
  [x \in 1..(IF hi >= lo THEN hi - lo + 1 ELSE 0) |-> hi - x + 1]

\* the list positions lo..hi in the order the for loop visits them
Ascending(lo, hi) == [x \in 1..(IF hi >= lo THEN hi - lo + 1 ELSE 0) |-> lo + x - 1]

Count(seq, v) == Cardinality({x \in DOMAIN seq : seq[x] = v})

Positions == 0..(Len(urls) - 1)

----------------------------------------------------------------------------
(* Pure parts of the code *)

\* a truncation that keeps one identifier too many
spliceOffByOne(list, maxPages) ==
  IF maxPages = <<>> THEN list
  ELSE SubSeq(list, 1, Min(maxPages[1] + 1, Len(list)))

\* urls.splice(Number(process.env.MAX_PAGES)) under `if (process.env.MAX_PAGES)`
splice(list, maxPages) ==
  IF maxPages = <<>> THEN list
  ELSE SubSeq(list, 1, Min(maxPages[1], Len(list)))

\* a cursor test that lets the index one past the end through
ExhaustedOffByOne(p, m) == p > m

\* renderNextUrl: `pathPointer >= urls.length`
Exhausted(p, m) == p >= m

\* every slot started up front, as if there were no warm-up page
InitialCallsNoWarmup(n) == n

\* prerenderPaths: the single renderNextUrl() call made before the
\* once('saved') listener is registered
InitialCalls(n) == 1

\* a release loop that starts at i = 0
ReleaseCountFromZero(n) == IF n > 0 THEN n ELSE 0

\* once('saved'): for (let i = 1; i < maxSynchronous; i++) renderNextUrl()
ReleaseCount(n) == IF n > 1 THEN n - 1 ELSE 0

\* a completion test that fires one 'saved' event early
FinalizesEarly(r, u) == Len(r) >= Len(u) - 1

\* 'saved' listener: rendered.length == urls.length
Finalizes(r, u) == Len(r) = Len(u)

\* a fetchPage that takes status 300 for a success
fetchPageHtmlStatusInclusive(goto, status, selector, content) ==
  IF goto # "ok" THEN "absent"
  ELSE IF selector = "throws" THEN "absent"
  ELSE IF status <= 300 THEN (IF content = "doc" THEN "present" ELSE "absent")
  ELSE "absent"

\* fetchPage: the value of `html` at `return html`, from what happened in
\* the try block: goto ("ok", "null" when it resolves without a response
\* so that response.status() throws, "throws"), the response status, the
\* selector wait ("unset"/"found"/"throws") and, under a status below
\* 300, `await page.content()` ("doc", "empty" when it resolves the empty
\* string, "throws").  "absent" is every falsy value: html left
\* undefined, or '' which `if (!html)` treats alike.
fetchPageHtml(goto, status, selector, content) ==
  IF goto # "ok" THEN "absent"
  ELSE IF selector = "throws" THEN "absent"
  ELSE IF status < 300 THEN (IF content = "doc" THEN "present" ELSE "absent")
  ELSE "absent"

\* a fetchPage whose try block does not cover page.goto
fetchPageCatchesSelectorOnly(goto, selector) == goto # "throws"

\* fetchPage: an exception thrown inside the try block is caught
fetchPageCatches(goto, selector) == TRUE

\* a writeRenderedPage without the `if (!html)` exit
SkipsWriteNever(h) == FALSE

\* writeRenderedPage: `if (!html) return emitter.emit('saved', {url})`
SkipsWrite(h) == h = "absent"

\* a writeRenderedPage that returns silently when html is absent
EmitsSavedOnlyForHtml(h) == h = "present"

\* writeRenderedPage: both exits (line 86 and line 121) emit 'saved'
EmitsSaved(h) == TRUE

\* a fetchPage that closes its page only on the success path
ClosesPageOnlyForHtml(h) == h = "present"

\* fetchPage: `await page.close()` stands after the try/catch, whatever
\* html is
ClosesPage(h) == TRUE

\* a handler that ends the process without an error status
failOnUncaughtErrorExitsClean(err) == "0"

\* failOnUncaughtError: process.exit(1)
failOnUncaughtErrorExit(err) == "1"

\* a promise chain that only continues after a page with html
ChainsNextOnlyForHtml(h) == h = "present"

\* renderNextUrl: .then(renderNextUrl) follows writeRenderedPage whatever
\* html was
ChainsNext(h) == TRUE

----------------------------------------------------------------------------
\* the run state before prerenderPaths has launched the browser
InitRun ==
  /\ urls = <<>>
  /\ browser = "none"
  /\ pathPointer = -1
  /\ onceSaved = FALSE
  /\ st = <<>>
  /\ html = <<>>
  /\ cause = <<>>
  /\ rendered = <<>>
  /\ report = [pagesRendered |-> 0, totalRequests |-> 0, blockedRequests |-> 0]
  /\ reportsEmitted = 0
  /\ closeCalls = 0
  /\ exitStatus = "running"
  /\ doneEmits = 0
  /\ dispatchLog = <<>>
  /\ writeCalls = <<>>
  /\ savedCount = <<>>
  /\ written = {}
  /\ savedLog = <<>>
  /\ pageOpens = <<>>
  /\ pageCloses = <<>>
  /\ sidecars = {}
  /\ fetchArg = <<>>
  /\ writeArg = <<>>
  /\ uncaught = 0
  /\ closeRejected = FALSE
  /\ fresh = {}
  /\ intercepted = <<>>
  /\ aborted = <<>>
  /\ decisions = {}

\* no request of the pages is followed
NoRequests ==
  /\ blockPatterns = {}
  /\ blockHosts = {}
  /\ requestPool = {}

\* no fetchPage call is followed on its own
NoFetch ==
  /\ fetchStage = "idle"
  /\ fetchGoto = "ok"
  /\ fetchStatus = 200
  /\ fetchSelector = "unset"
  /\ fetchWaitMs = 0
  /\ fetchContent = "doc"
  /\ fetchClose = "ok"
  /\ fetchResult = "none"

\* the path computation of writeRenderedPage is not followed
NoMapping ==
  /\ mapStage = "idle"
  /\ mapUrl = <<>>
  /\ OUT_FOLDER = <<>>
  /\ fullPath = <<>>
  /\ outLog = <<>>

\* neither GZIP nor INLINE_CSS is set: writeRenderedPage awaits nothing
NoAwaitInWrite ==
  /\ gzip = FALSE
  /\ inlineCss = FALSE

\* GZIP and INLINE_CSS each set or not
AnyWriteToggles ==
  /\ gzip \in BOOLEAN
  /\ inlineCss \in BOOLEAN

\* getParameters and getPaths have returned: the identifiers all come
\* from the sitemap
Init ==
  /\ paths \in InputLists
  /\ MAX_PAGES \in {<<>>} \cup {<<k>> : k \in 1..MaxPagesCap}
  /\ maxSynchronous \in 1..MaxSync
  /\ stage = "paths"
  /\ SITEMAP_PATH = "valid"
  /\ PATHS = <<>>
  /\ sites = paths
  /\ computeScriptHashes = FALSE
  /\ NoRequests
  /\ NoMapping
  /\ AnyWriteToggles
  /\ NoFetch
  /\ InitRun

\* renderNextUrl, `const url = urls[pathPointer]`: each of k successive
\* calls that dispatches binds the list element under the cursor
captureUrl(k, list, argBase) ==
  fetchArg' = [j \in DOMAIN argBase |->
                 IF /\ j \in (pathPointer + 1)..(pathPointer + k)
                    /\ ~Exhausted(j, Len(list))
                 THEN list[j + 1]
                 ELSE argBase[j]]

\* a renderNextUrl whose url is shared by all calls: the .then callback
\* reads the list element under the cursor of the moment
sharedUrl(i) ==
  IF pathPointer < Len(urls) THEN urls[pathPointer + 1] ELSE "undefined"

\* the url of the .then((html) => writeRenderedPage(params, url, html))
\* callback of list position i: the const of its own renderNextUrl call
closureUrl(i) == fetchArg[i]

\* a 'saved' listener that keeps each url once
pushIfNew(list, url) ==
  IF \E k \in DOMAIN list : list[k] = url THEN list ELSE Append(list, url)

\* rendered.push(savedPage.url)
push(list, url) == Append(list, url)

\* k successive calls of renderNextUrl() with list length m, starting from
\* the per-position states stBase; the browser.newPage() call of each
\* fetchPage is issued in the current turn
renderNextUrl(k, m, stBase, freshBase) ==
  LET lo == pathPointer + 1
      hi == pathPointer + k
      new == {j \in lo..hi : ~Exhausted(j, m)}
      top == IF new = {} THEN lo - 1 ELSE CHOOSE j \in new : \A x \in new : x <= j
  IN /\ pathPointer' = hi
     /\ doneEmits' = doneEmits + Cardinality({j \in lo..hi : Exhausted(j, m)})
     /\ st' = [j \in DOMAIN stBase |-> IF j \in new THEN "newPage" ELSE stBase[j]]
     /\ dispatchLog' = dispatchLog \o Ascending(lo, top)
     /\ fresh' = freshBase \cup new

\* prerenderPaths up to the registration of the listeners
Launch ==
  /\ stage = "paths"
  /\ browser = "none"
  /\ exitStatus = "running"
  /\ urls' = splice(paths, MAX_PAGES)
  /\ browser' = "open"
  /\ onceSaved' = TRUE
  /\ LET P == 0..(Len(urls') - 1)
     IN /\ renderNextUrl(InitialCalls(maxSynchronous), Len(urls'),
                          [j \in P |-> "pending"], {})
        /\ html' = [j \in P |-> "none"]
        /\ cause' = [j \in P |-> "none"]
        /\ writeCalls' = [j \in P |-> 0]
        /\ savedCount' = [j \in P |-> 0]
        /\ pageOpens' = [j \in P |-> 0]
        /\ pageCloses' = [j \in P |-> 0]
        /\ captureUrl(InitialCalls(maxSynchronous), urls',
                      [j \in P |-> "none"])
        /\ writeArg' = [j \in P |-> "none"]
        /\ intercepted' = [j \in P |-> 0]
        /\ aborted' = [j \in P |-> 0]
  /\ UNCHANGED <<paths, MAX_PAGES, maxSynchronous, rendered, report,
                 reportsEmitted, closeCalls, exitStatus, written, savedLog,
                 sidecars, uncaught, closeRejected, cfgVars, reqCfg, decisions, pathVars,
                 fetchVars>>

\* the rejection of prerenderPaths() before line 315 has no listener:
\* Node ends the process, with status 1 or, before Node 15, with a
\* warning and status 0
UnhandledRejectionExit == {"0", "1"}

\* prerenderPaths: `await pptr.launch(...)` (line 308) rejects, before
\* failOnUncaughtError is registered
LaunchFails ==
  /\ stage = "paths"
  /\ browser = "none"
  /\ exitStatus = "running"
  /\ exitStatus' \in UnhandledRejectionExit
  /\ UNCHANGED <<paths, MAX_PAGES, maxSynchronous, urls, browser, pathPointer,
                 onceSaved, st, html, cause, rendered, report, reportsEmitted,
                 closeCalls, doneEmits, dispatchLog, writeCalls, savedCount,
                 written>>
  /\ UNCHANGED <<fresh, histVars, cfgVars, reqVars, pathVars, fetchVars>>

Running == browser = "open" /\ exitStatus = "running"

\* a promise continuation is queued: .then(html => writeRenderedPage) after
\* fetchPage returned, .then(renderNextUrl) after 'saved', or the
\* unhandledRejection of a rejected chain
MicrotaskPending == \E j \in Positions : st[j] \in {"fetched", "saved", "rejected"}

\* the browser's answer for list position i can be handled now: the
\* queued continuations run before the event loop takes the answer to a
\* call issued in the current turn
ioReady(i) == i \notin fresh \/ ~MicrotaskPending

\* the calls issued in the turn in which a browser answer is handled: a
\* new turn begins unless continuations are still queued
turnFresh == IF MicrotaskPending THEN fresh ELSE {}

\* the awaited call of list position i was issued in the current turn: if
\* it is rejected without a round trip to the browser (connection or
\* session closed), its continuation is queued in this very turn, among
\* the other continuations
settlesNow(i) == i \in fresh

\* fetchPage: `await browser.newPage()` returns a page
NewPage(i) ==
  /\ Running /\ ioReady(i)
  /\ st[i] = "newPage"
  /\ fresh' = turnFresh \cup {i}
  /\ st' = [st EXCEPT ![i] = "nav"]
  /\ pageOpens' = [pageOpens EXCEPT ![i] = @ + 1]
  /\ UNCHANGED <<paths, MAX_PAGES, maxSynchronous, urls, browser, pathPointer,
                 onceSaved, html, cause, rendered, report, reportsEmitted,
                 closeCalls, exitStatus, doneEmits, dispatchLog, writeCalls,
                 savedCount, written>>
  /\ UNCHANGED <<savedLog, pageCloses, sidecars, fetchArg, writeArg, uncaught, closeRejected,
                 cfgVars, reqVars, pathVars, fetchVars>>

\* fetchPage: `await browser.newPage()` throws, outside the try block:
\* the browser answers with an error, or the call is rejected at once
NewPageFails(i) ==
  /\ Running
  /\ st[i] = "newPage"
  /\ \/ ioReady(i) /\ fresh' = turnFresh
     \/ settlesNow(i) /\ fresh' = fresh
  /\ st' = [st EXCEPT ![i] = "rejected"]
  /\ cause' = [cause EXCEPT ![i] = "newPage"]
  /\ UNCHANGED <<paths, MAX_PAGES, maxSynchronous, urls, browser, pathPointer,
                 onceSaved, html, rendered, report, reportsEmitted,
                 closeCalls, exitStatus, doneEmits, dispatchLog, writeCalls,
                 savedCount, written>>
  /\ UNCHANGED <<histVars, cfgVars, reqVars, pathVars, fetchVars>>

\* what the try block of fetchPage can leave behind, over every course of
\* goto, status, selector wait and page.content(): html, or "rejected"
\* when an exception escapes the catch
tryOutcomes ==
  {IF fetchPageCatches(goto, selector)
   THEN fetchPageHtml(goto, status, selector, content)
   ELSE "rejected" :
     goto \in {"ok", "throws"}, status \in {200, 299, 300, 404},
     selector \in {"unset", "found", "throws"},
     content \in {"doc", "empty", "throws"}}

\* fetchPage: the try block, up to the call of page.close() at line 297.
\* The block ends on a browser answer, or, without html, on a call that
\* is rejected at once and caught (setExtraHTTPHeaders at line 214 is its
\* first call)
Navigate(i) ==
  /\ Running
  /\ st[i] = "nav"
  /\ \E outcome \in tryOutcomes :
       /\ \/ ioReady(i) /\ fresh' = turnFresh \cup {i}
          \/ settlesNow(i) /\ outcome = "absent" /\ fresh' = fresh \cup {i}
       /\ IF outcome # "rejected"
          THEN /\ st' = [st EXCEPT ![i] = "closing"]
               /\ html' = [html EXCEPT ![i] = outcome]
               /\ cause' = cause
          ELSE /\ st' = [st EXCEPT ![i] = "rejected"]
               /\ html' = html
               /\ cause' = [cause EXCEPT ![i] = "render"]
  /\ UNCHANGED <<paths, MAX_PAGES, maxSynchronous, urls, browser, pathPointer,
                 onceSaved, rendered, report, reportsEmitted,
                 closeCalls, exitStatus, doneEmits, dispatchLog, writeCalls,
                 savedCount, written>>
  /\ UNCHANGED <<histVars, cfgVars, reqVars, pathVars, fetchVars>>

\* fetchPage: `await page.close()` returns, then `return html`
PageClose(i) ==
  /\ Running /\ ioReady(i)
  /\ st[i] = "closing"
  /\ fresh' = turnFresh
  /\ st' = [st EXCEPT ![i] = "fetched"]
  /\ pageCloses' = IF ClosesPage(html[i])
                   THEN [pageCloses EXCEPT ![i] = @ + 1]
                   ELSE pageCloses
  /\ UNCHANGED <<paths, MAX_PAGES, maxSynchronous, urls, browser, pathPointer,
                 onceSaved, html, cause, rendered, report, reportsEmitted,
                 closeCalls, exitStatus, doneEmits, dispatchLog, writeCalls,
                 savedCount, written>>
  /\ UNCHANGED <<savedLog, pageOpens, sidecars, fetchArg, writeArg, uncaught, closeRejected,
                 cfgVars, reqVars, pathVars, fetchVars>>

\* fetchPage: `await page.close()` throws, outside the try block: the
\* browser answers with an error, or the call is rejected at once
PageCloseFails(i) ==
  /\ Running
  /\ st[i] = "closing"
  /\ \/ ioReady(i) /\ fresh' = turnFresh
     \/ settlesNow(i) /\ fresh' = fresh
  /\ st' = [st EXCEPT ![i] = "rejected"]
  /\ cause' = [cause EXCEPT ![i] = "pageClose"]
  /\ UNCHANGED <<paths, MAX_PAGES, maxSynchronous, urls, browser, pathPointer,
                 onceSaved, html, rendered, report, reportsEmitted,
                 closeCalls, exitStatus, doneEmits, dispatchLog, writeCalls,
                 savedCount, written>>
  /\ UNCHANGED <<histVars, cfgVars, reqVars, pathVars, fetchVars>>

\* emitter.emit('saved', {url}) for list position i: the once-listener
\* (lines 340-347) and then the on-listener (lines 350-358)
EmitSaved(i, freshBase) ==
  /\ onceSaved' = FALSE
  /\ renderNextUrl(IF onceSaved THEN ReleaseCount(maxSynchronous) ELSE 0,
                   Len(urls), [st EXCEPT ![i] = "saved"], freshBase)
  /\ captureUrl(IF onceSaved THEN ReleaseCount(maxSynchronous) ELSE 0,
                urls, fetchArg)
  /\ savedCount' = [savedCount EXCEPT ![i] = @ + 1]
  /\ report' = [report EXCEPT !.pagesRendered = @ + 1]
  /\ rendered' = push(rendered, closureUrl(i))
  /\ savedLog' = Append(savedLog, i)
  /\ IF Finalizes(rendered', urls)
     THEN /\ browser' = "closed"
          /\ closeCalls' = closeCalls + 1
          /\ reportsEmitted' = reportsEmitted + 1
     ELSE UNCHANGED <<browser, closeCalls, reportsEmitted>>

\* writeRenderedPage from where nothing is awaited any more to its end:
\* the page file and the sidecar unless html is absent, then 'saved'
finishWrite(i, freshBase) ==
  /\ written' = IF SkipsWrite(html[i]) THEN written ELSE written \cup {i}
  /\ sidecars' = IF ~SkipsWrite(html[i]) /\ computeScriptHashes
                 THEN sidecars \cup {i}
                 ELSE sidecars
  /\ IF EmitsSaved(html[i])
     THEN EmitSaved(i, freshBase)
     ELSE /\ st' = [st EXCEPT ![i] = "saved"]
          /\ fresh' = freshBase
          /\ UNCHANGED <<onceSaved, pathPointer, doneEmits, dispatchLog,
                         savedCount, report, rendered, browser, closeCalls,
                         reportsEmitted, savedLog, fetchArg>>

\* writeRenderedPage yields at `await inliner(...)` (line 100) or at
\* `await gzip(html)` (line 112): nothing has been written or emitted
awaitInWrite(i, at, freshBase) ==
  /\ st' = [st EXCEPT ![i] = at]
  /\ fresh' = freshBase
  /\ UNCHANGED <<written, sidecars, onceSaved, pathPointer, doneEmits,
                 dispatchLog, savedCount, report, rendered, browser,
                 closeCalls, reportsEmitted, savedLog, fetchArg>>

\* .then((html) => writeRenderedPage(params, url, html)): the call up to
\* its first await, or to its end when it awaits nothing; no step throws
WriteRenderedPage(i) ==
  /\ Running
  /\ st[i] = "fetched"
  /\ writeCalls' = [writeCalls EXCEPT ![i] = @ + 1]
  /\ writeArg' = [writeArg EXCEPT ![i] = closureUrl(i)]
  /\ IF ~SkipsWrite(html[i]) /\ inlineCss
     THEN awaitInWrite(i, "inlining", fresh)
     ELSE IF ~SkipsWrite(html[i]) /\ gzip
          THEN awaitInWrite(i, "gzipping", fresh)
          ELSE finishWrite(i, fresh)
  /\ UNCHANGED <<paths, MAX_PAGES, maxSynchronous, urls, html, cause,
                 exitStatus>>
  /\ UNCHANGED <<pageOpens, pageCloses, uncaught, closeRejected, cfgVars, reqVars, pathVars,
                 fetchVars>>

\* writeRenderedPage resumes after `await inliner(...)`, up to
\* `await gzip(html)` when GZIP is set and to its end otherwise
InlinerReturns(i) ==
  /\ Running
  /\ st[i] = "inlining"
  /\ IF gzip
     THEN awaitInWrite(i, "gzipping", turnFresh)
     ELSE finishWrite(i, turnFresh)
  /\ UNCHANGED <<paths, MAX_PAGES, maxSynchronous, urls, html, cause,
                 exitStatus, writeCalls>>
  /\ UNCHANGED <<pageOpens, pageCloses, writeArg, uncaught, closeRejected, cfgVars, reqVars,
                 pathVars, fetchVars>>

\* writeRenderedPage resumes after `await gzip(html)`, to its end
GzipReturns(i) ==
  /\ Running
  /\ st[i] = "gzipping"
  /\ finishWrite(i, turnFresh)
  /\ UNCHANGED <<paths, MAX_PAGES, maxSynchronous, urls, html, cause,
                 exitStatus, writeCalls>>
  /\ UNCHANGED <<pageOpens, pageCloses, writeArg, uncaught, closeRejected, cfgVars, reqVars,
                 pathVars, fetchVars>>

\* whether the page file is on disk when writeRenderedPage throws at or
\* after line 110: not when mkdirSync threw or writeFileSync (line 112)
\* could not create the file; yes when writeFileSync threw after
\* creating it (the file is empty or partial) or when the throw came later
\* (lines 113-120)
pageFileMayBeWritten == BOOLEAN

\* whether the sidecar is on disk by then: only with the page file on
\* disk and COMPUTE_SCRIPT_HASHES set, when writeFileSync at line 118 threw
\* after creating it
sidecarMayBeWritten(pageFileWritten) ==
  IF pageFileWritten /\ computeScriptHashes THEN BOOLEAN ELSE {FALSE}

\* what a throwing writeRenderedPage of list position i leaves on disk;
\* reachesWrite: the throw can come from line 112 or later
writeFailureLeaves(i, reachesWrite) ==
  \E pageFileWritten \in (IF reachesWrite THEN pageFileMayBeWritten ELSE {FALSE}) :
    \E sidecarWritten \in sidecarMayBeWritten(pageFileWritten) :
      /\ written' = IF pageFileWritten THEN written \cup {i} ELSE written
      /\ sidecars' = IF sidecarWritten THEN sidecars \cup {i} ELSE sidecars

\* writeRenderedPage throws before it has awaited anything: new URL(url),
\* mkdirSync, or, with neither INLINE_CSS nor GZIP, writeFileSync or the
\* sidecar lines
WriteFails(i) ==
  /\ Running
  /\ st[i] = "fetched"
  /\ ~SkipsWrite(html[i])
  /\ writeCalls' = [writeCalls EXCEPT ![i] = @ + 1]
  /\ writeFailureLeaves(i, ~(inlineCss \/ gzip))
  /\ st' = [st EXCEPT ![i] = "rejected"]
  /\ cause' = [cause EXCEPT ![i] = "write"]
  /\ writeArg' = [writeArg EXCEPT ![i] = closureUrl(i)]
  /\ fresh' = fresh
  /\ UNCHANGED <<paths, MAX_PAGES, maxSynchronous, urls, browser, pathPointer,
                 onceSaved, html, rendered, report, reportsEmitted,
                 closeCalls, exitStatus, doneEmits, dispatchLog, savedCount>>
  /\ UNCHANGED <<savedLog, pageOpens, pageCloses, fetchArg, uncaught,
                 closeRejected, cfgVars, reqVars, pathVars, fetchVars>>

\* writeRenderedPage throws after an await: the inliner or gzip rejects,
\* or mkdirSync, writeFileSync or a sidecar line throws in the resumed
\* function; after `await inliner` with GZIP set only what stands
\* before `await gzip` can throw
AwaitedWriteFails(i) ==
  /\ Running
  /\ st[i] \in {"inlining", "gzipping"}
  /\ fresh' = turnFresh
  /\ writeFailureLeaves(i, ~(st[i] = "inlining" /\ gzip))
  /\ st' = [st EXCEPT ![i] = "rejected"]
  /\ cause' = [cause EXCEPT ![i] = "write"]
  /\ UNCHANGED <<paths, MAX_PAGES, maxSynchronous, urls, browser, pathPointer,
                 onceSaved, html, rendered, report, reportsEmitted,
                 closeCalls, exitStatus, doneEmits, dispatchLog, savedCount,
                 writeCalls>>
  /\ UNCHANGED <<savedLog, pageOpens, pageCloses, fetchArg, writeArg, uncaught,
                 closeRejected, cfgVars, reqVars, pathVars, fetchVars>>

\* .then(renderNextUrl) of list position i
Chain(i) ==
  /\ exitStatus = "running"
  /\ st[i] = "saved"
  /\ IF ChainsNext(html[i])
     THEN /\ renderNextUrl(1, Len(urls), [st EXCEPT ![i] = "chained"], fresh)
          /\ captureUrl(1, urls, fetchArg)
     ELSE /\ st' = [st EXCEPT ![i] = "chained"]
          /\ UNCHANGED <<pathPointer, doneEmits, dispatchLog, fetchArg, fresh>>
  /\ UNCHANGED <<paths, MAX_PAGES, maxSynchronous, urls, browser, onceSaved,
                 html, cause, rendered, report, reportsEmitted, closeCalls,
                 exitStatus, writeCalls, savedCount, written>>
  /\ UNCHANGED <<savedLog, pageOpens, pageCloses, sidecars, writeArg, uncaught, closeRejected,
                 cfgVars, reqVars, pathVars, fetchVars>>

\* failOnUncaughtError, on the unhandledRejection of a rejected chain
Abort ==
  /\ exitStatus = "running"
  /\ \E j \in Positions :
       /\ st[j] = "rejected"
       /\ exitStatus' = failOnUncaughtErrorExit(cause[j])
  /\ browser' = "closed"
  /\ closeCalls' = closeCalls + 1
  /\ UNCHANGED <<paths, MAX_PAGES, maxSynchronous, urls, pathPointer,
                 onceSaved, st, html, cause, rendered, report, reportsEmitted,
                 doneEmits, dispatchLog, writeCalls, savedCount, written>>
  /\ UNCHANGED <<fresh, histVars, cfgVars, reqVars, pathVars, fetchVars>>

\* the 'requestfinished' listener of the open page of list position i
\* (lines 259-266) throws on a request that finished without a response:
\* failOnUncaughtError runs on the 'uncaughtException'
RequestFinishedThrows(i) ==
  /\ Running /\ ioReady(i)
  /\ st[i] \in {"nav", "closing"}
  /\ fresh' = turnFresh
  /\ uncaught' = uncaught + 1
  /\ exitStatus' = failOnUncaughtErrorExit("TypeError")
  /\ browser' = "closed"
  /\ closeCalls' = closeCalls + 1
  /\ UNCHANGED <<paths, MAX_PAGES, maxSynchronous, urls, pathPointer,
                 onceSaved, st, html, cause, rendered, report, reportsEmitted,
                 doneEmits, dispatchLog, writeCalls, savedCount, written>>
  /\ UNCHANGED <<savedLog, pageOpens, pageCloses, sidecars, fetchArg, writeArg,
                 closeRejected, cfgVars, reqVars, pathVars, fetchVars>>

\* the promise of the browser.close() call of the 'saved' listener (line
\* 354), which nothing awaits, is rejected: once the queued continuations
\* have run, failOnUncaughtError runs on the 'unhandledRejection', calls
\* browser.close() again and ends the process
BrowserCloseRejects ==
  /\ exitStatus = "running"
  /\ reportsEmitted > 0
  /\ \A j \in Positions : st[j] = "chained"
  /\ closeRejected' = TRUE
  /\ exitStatus' = failOnUncaughtErrorExit("closeRejected")
  /\ browser' = "closed"
  /\ closeCalls' = closeCalls + 1
  /\ UNCHANGED <<paths, MAX_PAGES, maxSynchronous, urls, pathPointer,
                 onceSaved, st, html, cause, rendered, report, reportsEmitted,
                 doneEmits, dispatchLog, writeCalls, savedCount, written>>
  /\ UNCHANGED <<savedLog, pageOpens, pageCloses, sidecars, fetchArg, writeArg,
                 uncaught, fresh, cfgVars, reqVars, pathVars, fetchVars>>

\* the browser was closed by the 'saved' listener and no callback is left:
\* the process ends with status 0
ProcessExit ==
  /\ exitStatus = "running"
  /\ reportsEmitted > 0
  /\ \A j \in Positions : st[j] = "chained"
  /\ exitStatus' = "0"
  /\ UNCHANGED <<paths, MAX_PAGES, maxSynchronous, urls, browser, pathPointer,
                 onceSaved, st, html, cause, rendered, report, reportsEmitted,
                 closeCalls, doneEmits, dispatchLog, writeCalls, savedCount,
                 written>>
  /\ UNCHANGED <<fresh, histVars, cfgVars, reqVars, pathVars, fetchVars>>

Next ==
  \/ Launch
  \/ LaunchFails
  \/ \E i \in Positions : NewPage(i)
  \/ \E i \in Positions : NewPageFails(i)
  \/ \E i \in Positions : Navigate(i)
  \/ \E i \in Positions : RequestFinishedThrows(i)
  \/ \E i \in Positions : PageClose(i)
  \/ \E i \in Positions : PageCloseFails(i)
  \/ \E i \in Positions : WriteRenderedPage(i)
  \/ \E i \in Positions : InlinerReturns(i)
  \/ \E i \in Positions : GzipReturns(i)
  \/ \E i \in Positions : WriteFails(i)
  \/ \E i \in Positions : AwaitedWriteFails(i)
  \/ \E i \in Positions : Chain(i)
  \/ Abort
  \/ BrowserCloseRejects
  \/ ProcessExit

Spec == Init /\ [][Next]_vars

\* only per-page render failures occur: no engine fault, no write failure
NextIsolation ==
  \/ Launch
  \/ \E i \in Positions : NewPage(i)
  \/ \E i \in Positions : Navigate(i)
  \/ \E i \in Positions : PageClose(i)
  \/ \E i \in Positions : WriteRenderedPage(i)
  \/ \E i \in Positions : InlinerReturns(i)
  \/ \E i \in Positions : GzipReturns(i)
  \/ \E i \in Positions : Chain(i)
  \/ ProcessExit

\* runs without a page cap over lists of at most IsoMaxLen identifiers
IsolationInit ==
  /\ paths \in {l \in InputLists : Len(l) <= IsoMaxLen}
  /\ MAX_PAGES = <<>>
  /\ maxSynchronous \in 1..IsoMaxSync
  /\ stage = "paths"
  /\ SITEMAP_PATH = "valid"
  /\ PATHS = <<>>
  /\ sites = paths
  /\ computeScriptHashes = FALSE
  /\ NoRequests
  /\ NoMapping
  /\ AnyWriteToggles
  /\ NoFetch
  /\ InitRun

\* every queued callback of the event loop eventually runs and every
\* browser round trip eventually completes
IsolationSpec ==
  IsolationInit /\ [][NextIsolation]_vars /\ WF_vars(NextIsolation)

\* every fetchPage call returns and no engine fault occurs; the output
\* pipeline may fail
NextWriteFault ==
  \/ Launch
  \/ \E i \in Positions : NewPage(i)
  \/ \E i \in Positions : Navigate(i)
  \/ \E i \in Positions : PageClose(i)
  \/ \E i \in Positions : WriteRenderedPage(i)
  \/ \E i \in Positions : InlinerReturns(i)
  \/ \E i \in Positions : GzipReturns(i)
  \/ \E i \in Positions : WriteFails(i)
  \/ \E i \in Positions : AwaitedWriteFails(i)
  \/ \E i \in Positions : Chain(i)
  \/ Abort
  \/ ProcessExit

WriteFaultSpec ==
  IsolationInit /\ [][NextWriteFault]_vars /\ WF_vars(NextWriteFault)

\* runs without a page cap over lists of at most FaultMaxLen identifiers
FaultInit ==
  /\ paths \in {l \in InputLists : Len(l) <= FaultMaxLen}
  /\ MAX_PAGES = <<>>
  /\ maxSynchronous \in 1..FaultMaxSync
  /\ stage = "paths"
  /\ SITEMAP_PATH = "valid"
  /\ PATHS = <<>>
  /\ sites = paths
  /\ computeScriptHashes = FALSE
  /\ NoRequests
  /\ NoMapping
  /\ AnyWriteToggles
  /\ NoFetch
  /\ InitRun

\* the full model with the event loop running every queued callback
FaultSpec == FaultInit /\ [][Next]_vars /\ WF_vars(Next)

\* runs over short lists with COMPUTE_SCRIPT_HASHES set or not
OutputInit ==
  /\ paths \in {l \in InputLists : Len(l) <= OutMaxLen}
  /\ MAX_PAGES = <<>>
  /\ maxSynchronous \in 1..OutMaxSync
  /\ stage = "paths"
  /\ SITEMAP_PATH = "valid"
  /\ PATHS = <<>>
  /\ sites = paths
  /\ computeScriptHashes \in BOOLEAN
  /\ NoRequests
  /\ NoMapping
  /\ AnyWriteToggles
  /\ NoFetch
  /\ InitRun

OutputSpec == OutputInit /\ [][Next]_vars

----------------------------------------------------------------------------
(* Configuration: prerenderPaths before pptr.launch *)

\* what prerenderPaths and its callbacks keep, but for the exit status
runVars == <<urls, browser, pathPointer, onceSaved, st, html, cause,
             rendered, report, reportsEmitted, closeCalls, doneEmits,
             dispatchLog, writeCalls, savedCount, written, fresh, histVars,
             intercepted, aborted, decisions>>

\* getParameters: (sitemapPath && new URL(sitemapPath)) || paths.length
\* is truthy; new URL throws on a malformed SITEMAP_PATH whatever PATHS is
assertPasses(sitemapPath, pathsCsv) ==
  \/ sitemapPath = "valid"
  \/ sitemapPath = "unset" /\ Len(pathsCsv) > 0

\* getPaths: the PATHS entries, then the sites of the sitemap if one is set
getPaths(pathsCsv, sitemapPath, fetched) ==
  pathsCsv \o (IF sitemapPath # "unset" THEN fetched ELSE <<>>)

\* const params = getParameters() returns
GetParameters ==
  /\ stage = "start"
  /\ assertPasses(SITEMAP_PATH, PATHS)
  /\ stage' = "params"
  /\ UNCHANGED <<paths, MAX_PAGES, maxSynchronous, exitStatus, runVars,
                 SITEMAP_PATH, PATHS, sites, computeScriptHashes, reqCfg,
                 pathVars, fetchVars>>

\* getParameters throws: the assert fails or new URL(sitemapPath) throws
ConfigError ==
  /\ stage = "start"
  /\ ~assertPasses(SITEMAP_PATH, PATHS)
  /\ stage' = "failed"
  /\ exitStatus' \in UnhandledRejectionExit
  /\ UNCHANGED <<paths, MAX_PAGES, maxSynchronous, runVars, SITEMAP_PATH,
                 PATHS, sites, computeScriptHashes, reqCfg, pathVars, fetchVars>>

\* const urls = await getPaths(params) resolves
GetPaths ==
  /\ stage = "params"
  /\ paths' = getPaths(PATHS, SITEMAP_PATH, sites)
  /\ stage' = "paths"
  /\ UNCHANGED <<MAX_PAGES, maxSynchronous, exitStatus, runVars,
                 SITEMAP_PATH, PATHS, sites, computeScriptHashes, reqCfg,
                 pathVars, fetchVars>>

\* the process starts with its environment set
ConfigInit ==
  /\ paths = <<>>
  /\ MAX_PAGES = <<>>
  /\ maxSynchronous \in 1..CfgMaxSync
  /\ stage = "start"
  /\ SITEMAP_PATH \in {"unset", "malformed", "valid"}
  /\ PATHS \in BoundedSeq(PageIds, CfgMaxLen)
  /\ sites \in BoundedSeq(PageIds, CfgMaxLen)
  /\ computeScriptHashes = FALSE
  /\ NoRequests
  /\ NoMapping
  /\ AnyWriteToggles
  /\ NoFetch
  /\ InitRun

ConfigNext ==
  \/ GetParameters
  \/ ConfigError
  \/ GetPaths
  \/ Next

ConfigSpec == ConfigInit /\ [][ConfigNext]_vars

----------------------------------------------------------------------------
(* Request interception: the page.on('request') handler of fetchPage *)

\* request.resourceType() values the handler lets through
typeAllowlist == {"document", "stylesheet", "script", "xhr", "fetch"}

\* what new RegExp(`\\.(js|css)$`) matches at the end of the pathname
extensionAllowlist == {".js", ".css"}

\* what new RegExp(`\\.(woff2)$`) matches at the end of the pathname
extensionBlocklist == {".woff2"}

ResourceTypes == typeAllowlist \cup {"image", "font", "other"}

RequestHosts == {"a.com", "ads.net"}

\* requestUrl.pathname as tokens, the extension being the last token
RequestPathnames ==
  {<<"/">>, <<"/", "app", ".js">>, <<"/", "style", ".css">>,
   <<"/", "font", ".woff2">>, <<"/", "img", ".png">>}

AllRequests ==
  [type : ResourceTypes, host : RequestHosts, pathname : RequestPathnames]

\* the navigation request of a page
DocumentRequest == [type |-> "document", host |-> "a.com", pathname |-> <<"/">>]

\* an image of the page
ImageRequest ==
  [type |-> "image", host |-> "a.com", pathname |-> <<"/", "img", ".png">>]

\* request.url() as tokens
requestUrl(r) == <<"https:", "/", "/", r.host>> \o r.pathname

\* new RegExp(p).test(url) for a literal p: p occurs somewhere in url
test(p, url) == \E k \in DOMAIN url : url[k] = p

\* the last token of a non-empty pathname
extension(pathname) == pathname[Len(pathname)]

\* isAllowed of the handler (lines 233-237)
isAllowed(r) ==
  \/ r.type \in typeAllowlist
  \/ extension(r.pathname) \in extensionAllowlist

\* isBlocked of the handler (lines 238-243)
isBlocked(r, patterns, hosts) ==
  \/ \E p \in patterns : test(p, requestUrl(r))
  \/ extension(r.pathname) \in extensionBlocklist
  \/ r.host \in hosts

\* a handler in which the allow list wins over the block rules
ContinuesAllowListWins(allowed, blocked) == allowed

\* if (isAllowed && !isBlocked) request.continue() else request.abort()
Continues(allowed, blocked) == allowed /\ ~blocked

decision(r, patterns, hosts) ==
  IF Continues(isAllowed(r), isBlocked(r, patterns, hosts))
  THEN "continue"
  ELSE "abort"

\* a handler that counts a request as blocked only when a block rule hit
CountsBlockedOnlyIfBlocked(d, blocked) == blocked

\* report.blockedRequests++ stands in the else branch, before
\* request.abort()
CountsBlocked(d, blocked) == d = "abort"

\* the 'request' handler of the page of list position i up to its first
\* await, for request r; the handler stays attached until page.close()
\* has completed
Request(i, r) ==
  /\ Running /\ ioReady(i)
  /\ st[i] \in {"nav", "closing"}
  /\ fresh' = turnFresh
  /\ r \in requestPool
  /\ report.totalRequests < MaxRequests
  /\ LET d == decision(r, blockPatterns, blockHosts)
         blocked == isBlocked(r, blockPatterns, blockHosts)
     IN /\ report' = [report EXCEPT
                        !.totalRequests = @ + 1,
                        !.blockedRequests =
                           IF CountsBlocked(d, blocked) THEN @ + 1 ELSE @]
        /\ intercepted' = [intercepted EXCEPT ![i] = @ + 1]
        /\ aborted' = [aborted EXCEPT ![i] = IF d = "abort" THEN @ + 1 ELSE @]
        /\ decisions' = decisions \cup {<<r, d>>}
  /\ UNCHANGED <<paths, MAX_PAGES, maxSynchronous, urls, browser, pathPointer,
                 onceSaved, st, html, cause, rendered, reportsEmitted,
                 closeCalls, exitStatus, doneEmits, dispatchLog, writeCalls,
                 savedCount, written, histVars, cfgVars, reqCfg, pathVars, fetchVars>>

\* runs without engine fault and without write failure, neither GZIP nor
\* INLINE_CSS set, with the requests of the pages being navigated
RequestNext ==
  \/ Launch
  \/ \E i \in Positions : NewPage(i)
  \/ \E i \in Positions : Navigate(i)
  \/ \E i \in Positions : PageClose(i)
  \/ \E i \in Positions : WriteRenderedPage(i)
  \/ \E i \in Positions : Chain(i)
  \/ ProcessExit
  \/ \E i \in Positions : \E r \in requestPool : Request(i, r)

\* two pages rendered one after the other; every request shape and
\* every block configuration
FilterInit ==
  /\ paths = <<"/", "/blog">>
  /\ MAX_PAGES = <<>>
  /\ maxSynchronous = 1
  /\ stage = "paths"
  /\ SITEMAP_PATH = "valid"
  /\ PATHS = <<>>
  /\ sites = paths
  /\ computeScriptHashes = FALSE
  /\ blockPatterns \in SUBSET {"app"}
  /\ blockHosts \in SUBSET {"ads.net"}
  /\ requestPool \in {{DocumentRequest, r} : r \in AllRequests}
  /\ NoMapping
  /\ NoAwaitInWrite
  /\ NoFetch
  /\ InitRun

FilterSpec == FilterInit /\ [][RequestNext]_vars

\* several pages open at once, each issuing a continued and an aborted
\* request; the list alternates between the two pages
RequestInit ==
  /\ paths \in {l \in InputLists : Len(l) <= ReqMaxLen}
  /\ MAX_PAGES = <<>>
  /\ maxSynchronous \in 1..ReqMaxSync
  /\ stage = "paths"
  /\ SITEMAP_PATH = "valid"
  /\ PATHS = <<>>
  /\ sites = paths
  /\ computeScriptHashes = FALSE
  /\ blockPatterns = {}
  /\ blockHosts = {}
  /\ requestPool = {DocumentRequest, ImageRequest}
  /\ NoMapping
  /\ NoAwaitInWrite
  /\ NoFetch
  /\ InitRun

RequestSpec == RequestInit /\ [][RequestNext]_vars

RECURSIVE SumUpTo(_, _)
\* f[0] + ... + f[n]
SumUpTo(f, n) == IF n < 0 THEN 0 ELSE f[n] + SumUpTo(f, n - 1)

----------------------------------------------------------------------------
(* Output path: writeRenderedPage, lines 88-98.  Strings are sequences of *)
(* tokens; "/" is a token of its own and so is a file extension.          *)

outDir == <<"rendered">>

\* the origin of the site as the URL parser serializes it
SiteOrigin == <<"https:", "/", "/", "example.com">>

\* ways the same origin is written in an identifier
WrittenOrigins ==
  {SiteOrigin,
   <<"https:", "/", "/", "Example.com">>,
   <<"https:", "/", "/", "example.com", ":443">>}

\* what follows the origin in an identifier
UrlPaths ==
  {<<>>, <<"/">>, <<"/", "blog">>, <<"/", "blog", "/">>,
   <<"/", "blog", ".html">>, <<"/", "blog", "/", "index", ".html">>}

MapUrls == {o \o pth : o \in WrittenOrigins, pth \in UrlPaths}

OutFolders == {<<>>, <<"dev">>, <<"/", "dev">>}

\* the URL parser lowercases the host
toLowerCase(host) == IF host = "Example.com" THEN "example.com" ELSE host

\* new URL(url).origin: scheme and lowercased host, the default port dropped
origin(url) == <<url[1], url[2], url[3], toLowerCase(url[4])>>

\* new URL(url).pathname: what follows host and port, "/" if nothing does
urlPathname(url) ==
  LET from == IF Len(url) >= 5 /\ url[5] = ":443" THEN 6 ELSE 5
      rest == SubSeq(url, from, Len(url))
  IN IF rest = <<>> THEN <<"/">> ELSE rest

\* String.prototype.replace(pattern, '') with a string pattern: the first
\* occurrence of pattern is removed, s is returned as is if there is none
replace(str, pattern) ==
  LET n == Len(pattern)
      hits == {k \in 1..(Len(str) - n + 1) : SubSeq(str, k, k + n - 1) = pattern}
  IN IF hits = {}
     THEN str
     ELSE LET k == CHOOSE x \in hits : \A y \in hits : x <= y
          IN SubSeq(str, 1, k - 1) \o SubSeq(str, k + n, Len(str))

RECURSIVE normalize(_)
\* path.normalize on paths without "." and "..": runs of "/" become one
normalize(str) ==
  IF Len(str) < 2
  THEN str
  ELSE IF str[1] = "/" /\ str[2] = "/"
       THEN normalize(Tail(str))
       ELSE <<str[1]>> \o normalize(Tail(str))

RECURSIVE joinParts(_)
\* the non-empty parts with "/" between them
joinParts(parts) ==
  IF parts = <<>>
  THEN <<>>
  ELSE LET rest == joinParts(Tail(parts))
       IN IF parts[1] = <<>>
          THEN rest
          ELSE IF rest = <<>> THEN parts[1] ELSE parts[1] \o <<"/">> \o rest

\* path.join(...parts)
join(parts) == normalize(joinParts(parts))

\* ensureSlashPrefix
ensureSlashPrefix(pth) ==
  IF pth # <<>> /\ pth[1] = "/" THEN pth ELSE <<"/">> \o pth

\* String.prototype.endsWith for a suffix that is one token
endsWith(str, suffix) == str # <<>> /\ str[Len(str)] = suffix

\* fullPath of writeRenderedPage after line 95
mappedPath(url, outFolder) ==
  LET joined == join(<<outDir, ensureSlashPrefix(outFolder),
                       replace(url, origin(url))>>)
  IN IF endsWith(joined, ".html")
     THEN joined
     ELSE join(<<joined, <<"index", ".html">>>>)

\* if (params.gzip) fullPath += '.gz'
gzipName(pth, gz) == IF gz THEN pth \o <<".gz">> ELSE pth

\* a sidecar name that only knows the .html ending
metadataPathHtmlOnly(pth) ==
  IF endsWith(pth, ".html")
  THEN SubSeq(pth, 1, Len(pth) - 1) \o <<".json">>
  ELSE pth

\* fullPath.replace(/\.html(\.gz)?$/, '.json')
metadataPath(pth) ==
  IF endsWith(pth, ".html")
  THEN SubSeq(pth, 1, Len(pth) - 1) \o <<".json">>
  ELSE IF endsWith(pth, ".gz") /\ Len(pth) >= 2 /\ pth[Len(pth) - 1] = ".html"
       THEN SubSeq(pth, 1, Len(pth) - 2) \o <<".json">>
       ELSE pth

\* lines 110-121: the page file, the sidecar if COMPUTE_SCRIPT_HASHES is
\* set and the replaced name ends in json, then the 'saved' event
writeEvents(url, pth, hashes) ==
  <<[op |-> "write", path |-> pth]>>
    \o (IF hashes /\ endsWith(metadataPath(pth), ".json")
        THEN <<[op |-> "write", path |-> metadataPath(pth)]>>
        ELSE <<>>)
    \o <<[op |-> "saved", path |-> url]>>

\* writeRenderedPage for a page with html, from line 88 to its first
\* await: `await inliner` (line 100) with INLINE_CSS, `await gzip` (line
\* 112) with GZIP, and to line 121 when it awaits nothing.  fullPath is
\* final at line 98.
MapPath ==
  /\ mapStage = "start"
  /\ fullPath' = gzipName(mappedPath(mapUrl, OUT_FOLDER), gzip)
  /\ IF inlineCss
     THEN mapStage' = "inlining" /\ outLog' = outLog
     ELSE IF gzip
          THEN mapStage' = "gzipping" /\ outLog' = outLog
          ELSE /\ mapStage' = "mapped"
               /\ outLog' = writeEvents(mapUrl, fullPath', computeScriptHashes)
  /\ UNCHANGED <<paths, MAX_PAGES, maxSynchronous, exitStatus, runVars,
                 cfgVars, reqCfg, mapUrl, OUT_FOLDER, gzip, inlineCss, fetchVars>>

\* that call resumed after `await inliner(...)`: to `await gzip` with
\* GZIP, to line 121 otherwise
MapInlinerReturns ==
  /\ mapStage = "inlining"
  /\ IF gzip
     THEN mapStage' = "gzipping" /\ outLog' = outLog
     ELSE /\ mapStage' = "mapped"
          /\ outLog' = writeEvents(mapUrl, fullPath, computeScriptHashes)
  /\ UNCHANGED <<paths, MAX_PAGES, maxSynchronous, exitStatus, runVars,
                 cfgVars, reqCfg, mapUrl, OUT_FOLDER, gzip, inlineCss, fullPath,
                 fetchVars>>

\* that call resumed after `await gzip(html)`: writeFileSync, the sidecar
\* and the 'saved' event
MapGzipReturns ==
  /\ mapStage = "gzipping"
  /\ mapStage' = "mapped"
  /\ outLog' = writeEvents(mapUrl, fullPath, computeScriptHashes)
  /\ UNCHANGED <<paths, MAX_PAGES, maxSynchronous, exitStatus, runVars,
                 cfgVars, reqCfg, mapUrl, OUT_FOLDER, gzip, inlineCss, fullPath,
                 fetchVars>>

\* writeRenderedPage is called with html for some url of the site
PathInit ==
  /\ paths = <<>>
  /\ MAX_PAGES = <<>>
  /\ maxSynchronous = 1
  /\ stage = "paths"
  /\ SITEMAP_PATH = "valid"
  /\ PATHS = <<>>
  /\ sites = <<>>
  /\ computeScriptHashes \in BOOLEAN
  /\ NoRequests
  /\ mapStage = "start"
  /\ mapUrl \in MapUrls
  /\ OUT_FOLDER \in OutFolders
  /\ AnyWriteToggles
  /\ fullPath = <<>>
  /\ outLog = <<>>
  /\ NoFetch
  /\ InitRun

PathNext ==
  \/ MapPath
  \/ MapInlinerReturns
  \/ MapGzipReturns

PathSpec == PathInit /\ [][PathNext]_vars

----------------------------------------------------------------------------
(* One fetchPage call, from the call of page.goto to its return, one step *)
(* per await                                                               *)

FetchStatuses == {200, 204, 299, 300, 301, 404, 500}

\* where an exception thrown in the try block leads: to the catch and
\* the call of page.close() at line 297
fetchCaught ==
  IF fetchPageCatches(fetchGoto, fetchSelector) THEN "close" ELSE "rejected"

\* lines 287-292, after the waits: page.content() is awaited exactly when
\* a document would make html present; response.status() on a missing
\* response throws into the catch
fetchAfterWaits ==
  IF fetchPageHtml(fetchGoto, fetchStatus, fetchSelector, "doc") = "present"
  THEN "content"
  ELSE IF fetchGoto = "null" THEN fetchCaught ELSE "close"

\* lines 283-285: `await wait(waitMs)` if WAIT_MILLISECONDS is a non-zero
\* number
fetchAfterSelector ==
  IF fetchWaitMs > 0 THEN "wait" ELSE fetchAfterWaits

\* `await page.goto(...)` (line 276) settles
FetchGoto ==
  /\ fetchStage = "goto"
  /\ fetchStage' = IF fetchGoto = "throws" THEN fetchCaught
                   ELSE IF fetchSelector # "unset" THEN "selector"
                   ELSE fetchAfterSelector
  /\ UNCHANGED <<paths, MAX_PAGES, maxSynchronous, exitStatus, runVars,
                 cfgVars, reqCfg, pathVars, fetchGoto, fetchStatus,
                 fetchSelector, fetchWaitMs, fetchContent, fetchClose,
                 fetchResult>>

\* `await page.waitForSelector(selector)` (line 281) settles
FetchSelector ==
  /\ fetchStage = "selector"
  /\ fetchStage' = IF fetchSelector = "throws" THEN fetchCaught
                   ELSE fetchAfterSelector
  /\ UNCHANGED <<paths, MAX_PAGES, maxSynchronous, exitStatus, runVars,
                 cfgVars, reqCfg, pathVars, fetchGoto, fetchStatus,
                 fetchSelector, fetchWaitMs, fetchContent, fetchClose,
                 fetchResult>>

\* `await wait(Number(waitMs))` (line 284) is over
FetchWait ==
  /\ fetchStage = "wait"
  /\ fetchStage' = fetchAfterWaits
  /\ UNCHANGED <<paths, MAX_PAGES, maxSynchronous, exitStatus, runVars,
                 cfgVars, reqCfg, pathVars, fetchGoto, fetchStatus,
                 fetchSelector, fetchWaitMs, fetchContent, fetchClose,
                 fetchResult>>

\* `html = await page.content()` (line 288) settles
FetchContent ==
  /\ fetchStage = "content"
  /\ fetchStage' = IF fetchContent = "throws" THEN fetchCaught ELSE "close"
  /\ UNCHANGED <<paths, MAX_PAGES, maxSynchronous, exitStatus, runVars,
                 cfgVars, reqCfg, pathVars, fetchGoto, fetchStatus,
                 fetchSelector, fetchWaitMs, fetchContent, fetchClose,
                 fetchResult>>

\* `await page.close()` (line 297) settles: `return html`, or the
\* rejection of fetchPage, page.close() standing outside the try block
FetchClose ==
  /\ fetchStage = "close"
  /\ IF fetchClose = "ok"
     THEN /\ fetchStage' = "returned"
          /\ fetchResult' = fetchPageHtml(fetchGoto, fetchStatus,
                                          fetchSelector, fetchContent)
     ELSE /\ fetchStage' = "rejected"
          /\ fetchResult' = fetchResult
  /\ UNCHANGED <<paths, MAX_PAGES, maxSynchronous, exitStatus, runVars,
                 cfgVars, reqCfg, pathVars, fetchGoto, fetchStatus,
                 fetchSelector, fetchWaitMs, fetchContent, fetchClose>>

\* a page has been opened and page.goto called; every course of goto,
\* status, selector wait, delay, page.content() and page.close()
FetchInit ==
  /\ paths = <<>>
  /\ MAX_PAGES = <<>>
  /\ maxSynchronous = 1
  /\ stage = "paths"
  /\ SITEMAP_PATH = "valid"
  /\ PATHS = <<>>
  /\ sites = <<>>
  /\ computeScriptHashes = FALSE
  /\ NoRequests
  /\ NoMapping
  /\ NoAwaitInWrite
  /\ fetchStage = "goto"
  /\ fetchGoto \in {"ok", "null", "throws"}
  /\ fetchStatus \in FetchStatuses
  /\ fetchSelector \in {"unset", "found", "throws"}
  /\ fetchWaitMs \in {0, 2000}
  /\ fetchContent \in {"doc", "empty", "throws"}
  /\ fetchClose \in {"ok", "throws"}
  /\ fetchResult = "none"
  /\ InitRun

FetchNext ==
  \/ FetchGoto
  \/ FetchSelector
  \/ FetchWait
  \/ FetchContent
  \/ FetchClose

FetchSpec == FetchInit /\ [][FetchNext]_vars

----------------------------------------------------------------------------
(* Derived notions *)

\* fetchPage has returned for list position j
Returned(j) ==
  \/ st[j] \in {"fetched", "inlining", "gzipping", "saved", "chained"}
  \/ st[j] = "rejected" /\ cause[j] = "write"

\* pages opened by browser.newPage() and not closed by page.close()
OpenPages == {j \in Positions : pageOpens[j] > pageCloses[j]}

\* tasks dispatched by renderNextUrl whose 'saved' event has not been emitted
InFlight == Len(dispatchLog) - Len(rendered)

\* the same, read off the promise chains
InFlightSet ==
  {j \in Positions : st[j] \in {"newPage", "nav", "closing", "fetched",
                                 "inlining", "gzipping", "rejected"}}

\* saved pages whose .then(renderNextUrl) has not run yet
RefillPending == {j \in Positions : st[j] = "saved"}

Launched == browser # "none"

\* some url stands at two positions of the list
HasDuplicates ==
  \E a, b \in DOMAIN urls : a # b /\ urls[a] = urls[b]

\* at least one page of the list has not been dispatched
Undispatched == pathPointer + 1 < Len(urls)

Done ==
  /\ exitStatus = "0"
  /\ browser = "closed"
  /\ reportsEmitted = 1

TypeOK ==
  /\ pathPointer \in -1..(MaxLen + MaxSync + 2)
  /\ InFlight >= 0

----------------------------------------------------------------------------
(* Claims *)

\* C1: every list position is dispatched at most once, its
\* writeRenderedPage is invoked at most once and only after its fetchPage
\* returned, it emits at most one 'saved' event, each 'saved' event is
\* one report.pagesRendered update, nothing outside the list is
\* dispatched; and when the run finalizes (browser closed, report
\* emitted) every one of the M positions has been dispatched, has
\* resolved, has had its writeRenderedPage call and its 'saved' event
\* exactly once.
C1_EachTaskExactlyOnce ==
  /\ \A x \in DOMAIN dispatchLog : dispatchLog[x] \in Positions
  /\ \A j \in Positions :
       /\ Count(dispatchLog, j) <= 1
       /\ writeCalls[j] <= Count(dispatchLog, j)
       /\ writeCalls[j] = 1 => html[j] # "none"
       /\ savedCount[j] <= writeCalls[j]
  /\ report.pagesRendered = Len(rendered)
  /\ Launched =>
       Len(rendered) = Cardinality({j \in Positions : savedCount[j] = 1})
  /\ reportsEmitted > 0 =>
       /\ browser = "closed"
       /\ Len(dispatchLog) = Len(urls)
       /\ report.pagesRendered = Len(urls)
       /\ \A j \in Positions :
            /\ Count(dispatchLog, j) = 1
            /\ html[j] \in {"present", "absent"}
            /\ writeCalls[j] = 1
            /\ savedCount[j] = 1

\* a finalized run of three pages with budget two, one render failed
C1_Witness ==
  /\ reportsEmitted = 1
  /\ Len(urls) = 3
  /\ maxSynchronous = 2
  /\ \E j \in Positions : html[j] = "absent"
  /\ \E j \in Positions : html[j] = "present"

\* C2: the number of in-flight tasks (dispatched, 'saved' not yet
\* emitted) is between 0 and maxSynchronous in every reachable state, and
\* it is exactly the number of promise chains standing between their
\* fetchPage call and their 'saved' event: one more per dispatch, one
\* less per 'saved'.
C2_InFlightWithinBudget ==
  Launched =>
    /\ 0 <= InFlight
    /\ InFlight <= maxSynchronous
    /\ InFlight = Cardinality(InFlightSet)

\* the warm-up page has resolved, the once-listener and the warm-up
\* chain have both dispatched, and the budget is full
C2_Witness ==
  /\ Launched
  /\ maxSynchronous = 2
  /\ Len(urls) = 3
  /\ st[0] = "chained"
  /\ InFlight = 2

\* C3: the first dispatch is list position 0, and as long as position 0
\* has not emitted 'saved' nothing else has been dispatched.
C3_WarmupBarrier ==
  /\ dispatchLog # <<>> => dispatchLog[1] = 0
  /\ (Launched /\ Len(urls) >= 1 /\ savedCount[0] = 0) => dispatchLog = <<0>>

\* budget two, three pages, warm-up page fetched but not yet saved
C3_Witness ==
  /\ Launched
  /\ maxSynchronous = 2
  /\ Len(urls) = 3
  /\ st[0] = "fetched"
  /\ dispatchLog = <<0>>

\* C4: the 'saved' event of the warm-up page (position 0), with or
\* without html, dispatches the next min(N-1, M-1) positions in list
\* order, and when its .then(renderNextUrl) has run exactly
\* min(N, M-1) tasks are in flight.
C4_WarmupRelease ==
  [][ (Launched /\ Len(urls) >= 1) =>
        /\ (savedCount[0] = 0 /\ savedCount'[0] = 1) =>
             /\ dispatchLog' =
                  Ascending(0, Min(maxSynchronous - 1, Len(urls) - 1))
             /\ InFlight' = Min(maxSynchronous - 1, Len(urls) - 1)
        /\ (st[0] = "saved" /\ st'[0] = "chained") =>
             /\ InFlight' = Min(maxSynchronous, Len(urls) - 1)
             /\ InFlight' <= maxSynchronous
             /\ dispatchLog' =
                  Ascending(0, Min(maxSynchronous, Len(urls) - 1)) ]_vars

\* the warm-up render failed, its chain has run, and the two other pages
\* are in flight under budget two
C4_Witness ==
  /\ Launched
  /\ maxSynchronous = 2
  /\ Len(urls) = 3
  /\ html[0] = "absent"
  /\ st[0] = "chained"
  /\ st[1] = "newPage"
  /\ st[2] = "newPage"

\* C5: a 'saved' event after the warm-up one dispatches nothing itself;
\* the .then(renderNextUrl) that follows any 'saved' event dispatches
\* exactly the next list position when one is left and nothing
\* otherwise, whether the page had html or not.
C5_SteadyStateRefill ==
  [][ Launched =>
        \A j \in Positions :
          /\ (st[j] = "fetched" /\ st'[j] = "saved" /\ ~onceSaved) =>
               dispatchLog' = dispatchLog
          /\ (st[j] = "saved" /\ st'[j] = "chained") =>
               IF Undispatched
               THEN dispatchLog' = Append(dispatchLog, pathPointer + 1)
               ELSE dispatchLog' = dispatchLog ]_vars

\* a page after the warm-up page failed to render and its refill has
\* dispatched the last page of the list
C5_Witness ==
  /\ Launched
  /\ maxSynchronous = 1
  /\ Len(urls) = 3
  /\ html[1] = "absent"
  /\ st[1] = "chained"
  /\ st[2] = "newPage"

\* C6 as stated: whenever a page of the list is still undispatched,
\* exactly maxSynchronous tasks are in flight.
C6_AlwaysMaxInFlight ==
  (Launched /\ Undispatched) => InFlight = maxSynchronous

\* C6 amended: until the first page is saved exactly one task is in
\* flight; once the first page's chain has called renderNextUrl, whenever
\* a page is still undispatched, the tasks in flight plus the saved
\* pages whose .then(renderNextUrl) has not run yet number exactly
\* maxSynchronous.
C6_MaxInFlightAfterWarmup ==
  (Launched /\ Len(urls) >= 1) =>
    /\ savedCount[0] = 0 => InFlight = 1
    /\ (st[0] = "chained" /\ Undispatched) =>
         InFlight + Cardinality(RefillPending) = maxSynchronous

\* steady state with a page still undispatched and the budget full
C6_Witness ==
  /\ Launched
  /\ maxSynchronous = 2
  /\ Len(urls) = 4
  /\ st[0] = "chained"
  /\ Undispatched
  /\ RefillPending = {}
  /\ InFlight = 2

\* C7: when only per-page render failures occur (page.goto throws or
\* times out, status >= 300, selector wait throws), no promise chain is
\* ever rejected, and every run that has seen a render failure goes on
\* to save every page of the list exactly once, emit the report and end
\* with status 0.
C7_RenderFailureIsolated ==
  /\ [](\A j \in Positions : st[j] # "rejected" /\ cause[j] = "none")
  /\ [](exitStatus # "1")
  /\ ((Launched /\ \E j \in Positions : html[j] = "absent")
        ~> (Done /\ \A j \in Positions : savedCount[j] = 1))

\* a finished run of three pages in which the second render failed and
\* the two others were written
C7_Witness ==
  /\ Done
  /\ Len(urls) = 3
  /\ html[1] = "absent"
  /\ written = {0, 2}
  /\ report.pagesRendered = 3

\* C8 as stated: a failure inside writeRenderedPage does not escape it:
\* every page whose writeRenderedPage call has run is counted as
\* processed ('saved' emitted) once the call is over, and the process
\* does not end with a non-zero status while no engine fault has
\* occurred.
C8_WriteFailureIsolated ==
  Launched =>
    /\ \A j \in Positions :
         writeCalls[j] = 1 =>
           st[j] \in {"inlining", "gzipping", "saved", "chained"}
    /\ (/\ uncaught = 0
        /\ ~closeRejected
        /\ \A j \in Positions : cause[j] \notin {"newPage", "pageClose"}) =>
         exitStatus # "1"

\* C9 as stated: with every fetchPage call returning and no engine
\* fault, a run over M >= 1 pages eventually reaches Done.
C9_Terminates ==
  (Launched /\ Len(urls) >= 1) ~> Done

\* C10: the report is emitted at most once; when it has been emitted
\* the 'saved' listener has closed the browser exactly once, no task is
\* in flight, every page has emitted 'saved' after its writeRenderedPage
\* call and every page with html has its file written; after the report
\* nothing is dispatched, no report counter changes, and neither the
\* listener's browser.close() nor the report happens again.  The one
\* other browser.close() is that of failOnUncaughtError, when the
\* listener's call was rejected.
C10_FinalizedOnceAfterAll ==
  /\ [](reportsEmitted <= 1)
  /\ [](reportsEmitted = 1 =>
          /\ browser = "closed"
          /\ closeCalls = (IF closeRejected THEN 2 ELSE 1)
          /\ InFlight = 0
          /\ Len(rendered) = Len(urls)
          /\ \A j \in Positions :
               /\ st[j] \in {"saved", "chained"}
               /\ writeCalls[j] = 1
               /\ savedCount[j] = 1
               /\ (html[j] = "present" => j \in written))
  /\ [][reportsEmitted = 1 =>
          /\ reportsEmitted' = 1
          /\ closeRejected' = closeRejected => closeCalls' = closeCalls
          /\ report' = report
          /\ rendered' = rendered
          /\ dispatchLog' = dispatchLog]_vars

\* the report is out and the last chain has made its renderNextUrl call,
\* which found the list exhausted
C10_Witness ==
  /\ reportsEmitted = 1
  /\ Len(urls) = 3
  /\ maxSynchronous = 2
  /\ \A j \in Positions : st[j] = "chained"
  /\ doneEmits >= 1
  /\ exitStatus = "running"

\* C11: report.pagesRendered always equals the number of pages whose
\* writeRenderedPage call has returned (render failed or not), and when
\* the report is emitted it equals the length M of the truncated list.
C11_PagesRenderedCountsAll ==
  Launched =>
    /\ report.pagesRendered =
         Cardinality({j \in Positions : st[j] \in {"saved", "chained"}})
    /\ reportsEmitted > 0 => report.pagesRendered = Len(urls)

\* the report of a batch of three with exactly one failed render
C11_Witness ==
  /\ reportsEmitted = 1
  /\ Len(urls) = 3
  /\ Cardinality({j \in Positions : html[j] = "absent"}) = 1
  /\ report.pagesRendered = 3

\* C13: with MAX_PAGES = K the list is cut to its first min(K, M)
\* identifiers before the first dispatch: no position >= K is ever
\* dispatched, at most min(K, M) tasks are dispatched, and once a
\* 'saved' event has been seen the report is out exactly when min(K, M)
\* 'saved' events have been seen, all min(K, M) positions dispatched.
C13_MaxPagesTruncates ==
  (Launched /\ MAX_PAGES # <<>>) =>
    LET K == MAX_PAGES[1]
        kept == Min(K, Len(paths))
    IN /\ urls = SubSeq(paths, 1, kept)
       /\ \A x \in DOMAIN dispatchLog : dispatchLog[x] < K
       /\ Len(dispatchLog) <= kept
       /\ rendered # <<>> => (reportsEmitted > 0 <=> Len(rendered) = kept)
       /\ reportsEmitted > 0 => Len(dispatchLog) = kept

\* four identifiers, limit two: finalized after two pages
C13_Witness ==
  /\ reportsEmitted = 1
  /\ MAX_PAGES = <<2>>
  /\ Len(paths) = 4
  /\ dispatchLog = <<0, 1>>
  /\ report.pagesRendered = 2

\* C12: a page without html gets no page file and no sidecar and its
\* writeRenderedPage call emits 'saved'; a page with html that has
\* emitted 'saved' has its page file; no page has more than one
\* writeRenderedPage call or 'saved' event; a sidecar exists only next
\* to a page file and only with COMPUTE_SCRIPT_HASHES; a page file
\* without a 'saved' event is what a throwing write left behind, for a
\* page with html whose chain is rejected; at Done the page files are
\* exactly the pages rendered with html.
C12_FilesMatchRenderedPages ==
  Launched =>
    /\ \A j \in Positions :
         /\ writeCalls[j] <= 1
         /\ savedCount[j] <= 1
         /\ html[j] = "absent" =>
              /\ j \notin written
              /\ j \notin sidecars
              /\ writeCalls[j] = 1 => savedCount[j] = 1
         /\ (html[j] = "present" /\ savedCount[j] = 1) => j \in written
         /\ j \in sidecars => (j \in written /\ computeScriptHashes)
         /\ (j \in written /\ savedCount[j] = 0) =>
              (html[j] = "present" /\ st[j] = "rejected" /\ cause[j] = "write")
    /\ Done =>
         /\ written = {j \in Positions : html[j] = "present"}
         /\ sidecars = IF computeScriptHashes THEN written ELSE {}

\* a finished run of two pages with script hashes on: the first render
\* failed, the second page has its file and its sidecar
C12_Witness ==
  /\ Done
  /\ computeScriptHashes
  /\ Len(urls) = 2
  /\ html[0] = "absent"
  /\ html[1] = "present"
  /\ savedCount[0] = 1
  /\ written = {1}
  /\ sidecars = {1}

\* C14: after the launch of the browser, once a promise chain has been
\* rejected (browser.newPage() or page.close() threw, or any other
\* unhandled fault) or a listener has thrown, no report has been or will
\* be emitted and the process ends with status 1; when it has ended with
\* status 1 the browser is closed by failOnUncaughtError after one of
\* these faults or after the rejection of the finalizing browser.close(),
\* the report being out in that last case only; and after that end
\* nothing is dispatched or reported any more.
C14_FatalAbort ==
  /\ []((Launched /\ (uncaught > 0 \/ \E j \in Positions : st[j] = "rejected")) =>
          reportsEmitted = 0)
  /\ []((Launched /\ exitStatus = "1") =>
          /\ browser = "closed"
          /\ closeCalls = 1 + reportsEmitted
          /\ reportsEmitted = (IF closeRejected THEN 1 ELSE 0)
          /\ (uncaught = 1 \/ closeRejected
                \/ \E j \in Positions : st[j] = "rejected"))
  /\ [][(Launched /\ exitStatus = "1") =>
          /\ dispatchLog' = dispatchLog
          /\ reportsEmitted' = reportsEmitted
          /\ exitStatus' = "1"]_vars
  /\ ((Launched /\ (uncaught > 0 \/ \E j \in Positions : st[j] = "rejected"))
        ~> (exitStatus = "1" /\ browser = "closed"))

\* an engine fault aborted the run while another task was in flight
C14_Witness ==
  /\ exitStatus = "1"
  /\ browser = "closed"
  /\ \E j \in Positions : cause[j] \in {"newPage", "pageClose"}
  /\ Cardinality({j \in Positions : st[j] \in {"newPage", "nav", "closing"}}) >= 1

\* C18: the k-th fetchPage call is for the k-th element of the list;
\* the 'saved' listener's pushes and counter follow the order in which
\* 'saved' events are emitted, each for a dispatched page not saved
\* before; that order is not tied to the list order.
C18_DispatchInListOrder ==
  /\ \A x \in DOMAIN dispatchLog : dispatchLog[x] = x - 1
  /\ Launched =>
       /\ Len(rendered) = Len(savedLog)
       /\ report.pagesRendered = Len(savedLog)
       /\ \A k \in DOMAIN savedLog :
            /\ rendered[k] = urls[savedLog[k] + 1]
            /\ Count(dispatchLog, savedLog[k]) = 1
            /\ Count(savedLog, savedLog[k]) = 1

\* the third page has been written and counted while the second, which
\* was dispatched before it, is still rendering
C18_Witness ==
  /\ Launched
  /\ Len(urls) = 3
  /\ savedLog = <<0, 2>>
  /\ 2 \in written
  /\ st[1] = "nav"
  /\ report.pagesRendered = 2

\* C20: a list position opens at most one page and closes it at most
\* once; whenever fetchPage has returned, with html or without, its page
\* has been opened and closed exactly once; at most maxSynchronous
\* pages are open; when the report is emitted every page has been
\* closed.
C20_ContextTeardown ==
  Launched =>
    /\ \A j \in Positions :
         /\ pageOpens[j] <= 1
         /\ pageCloses[j] <= pageOpens[j]
         /\ Returned(j) => (pageOpens[j] = 1 /\ pageCloses[j] = 1)
    /\ Cardinality(OpenPages) <= maxSynchronous
    /\ reportsEmitted > 0 =>
         (OpenPages = {} /\ \A j \in Positions : pageCloses[j] = 1)

\* the warm-up render failed and its page was closed; two pages are open
\* under budget two
C20_Witness ==
  /\ Launched
  /\ maxSynchronous = 2
  /\ Len(urls) = 3
  /\ html[0] = "absent"
  /\ Returned(0)
  /\ pageCloses[0] = 1
  /\ Cardinality(OpenPages) = 2

\* C15: when getParameters threw (no SITEMAP_PATH and no PATHS, or a
\* malformed SITEMAP_PATH) or getPaths returned an empty list, the
\* browser is never launched and nothing is dispatched.
C15_ConfigErrorsFatal ==
  (stage = "failed" \/ (stage = "paths" /\ paths = <<>>)) =>
    (browser = "none" /\ dispatchLog = <<>>)

\* C16: every decision the handler has taken is "continue" exactly when
\* (the resource type is document, stylesheet, script, xhr or fetch, or
\* the pathname ends in .js or .css) and the request is not blocked,
\* blocked meaning that a block pattern matches its URL, its pathname
\* ends in .woff2 or its host is a block host; otherwise it is "abort";
\* a blocked request is aborted whatever the allow list says; and one
\* request never gets two different decisions, whatever the counters
\* were and whichever page issued it.
C16_FilterDecision ==
  /\ \A e \in decisions :
       LET r == e[1]
           d == e[2]
           last == r.pathname[Len(r.pathname)]
           url == <<"https:", "/", "/", r.host>> \o r.pathname
           allowed ==
             \/ r.type \in {"document", "stylesheet", "script", "xhr", "fetch"}
             \/ last \in {".js", ".css"}
           blocked ==
             \/ \E p \in blockPatterns : \E k \in DOMAIN url : url[k] = p
             \/ last = ".woff2"
             \/ r.host \in blockHosts
       IN /\ d \in {"continue", "abort"}
          /\ d = "continue" <=> (allowed /\ ~blocked)
          /\ blocked => d = "abort"
  /\ \A e1, e2 \in decisions : e1[1] = e2[1] => e1[2] = e2[2]

\* the script /app.js, on the allow list and hit by the block pattern
\* "app", was requested by both pages at different counter values and
\* aborted both times
C16_Witness ==
  /\ Len(urls) = 2
  /\ blockPatterns = {"app"}
  /\ intercepted[0] = 1
  /\ intercepted[1] = 1
  /\ report.totalRequests = 2
  /\ decisions =
       {<<[type |-> "script", host |-> "a.com",
           pathname |-> <<"/", "app", ".js">>], "abort">>}

\* C17: report.totalRequests is the number of handler runs over all
\* pages and report.blockedRequests the number of aborted requests over
\* all pages, in every state and so when the report is emitted; hence
\* blockedRequests <= totalRequests.
C17_RequestCounters ==
  Launched =>
    /\ report.totalRequests = SumUpTo(intercepted, Len(urls) - 1)
    /\ report.blockedRequests = SumUpTo(aborted, Len(urls) - 1)
    /\ report.blockedRequests <= report.totalRequests
    /\ \A j \in Positions : aborted[j] <= intercepted[j]

\* the second and the third page are open at once, each has had one
\* request intercepted and one of the two was aborted
C17_Witness ==
  /\ Len(urls) = 3
  /\ st[1] = "nav"
  /\ st[2] = "nav"
  /\ intercepted[1] = 1
  /\ intercepted[2] = 1
  /\ report.totalRequests = 2
  /\ report.blockedRequests = 1

\* C19: without GZIP, an identifier whose path is "/" maps to
\* rendered/index.html, "/blog" to rendered/blog/index.html and
\* "/blog.html" to rendered/blog.html, each under rendered/dev with
\* OUT_FOLDER dev; a path ending in .html is kept, any other path gets
\* /index.html appended.
C19_PathMapping ==
  (mapStage = "mapped" /\ ~gzip) =>
    LET pth == urlPathname(mapUrl)
        root == IF OUT_FOLDER = <<>>
                THEN <<"rendered">>
                ELSE <<"rendered", "/", "dev">>
    IN /\ pth = <<"/">> => fullPath = root \o <<"/", "index", ".html">>
       /\ pth = <<"/", "blog">> =>
            fullPath = root \o <<"/", "blog", "/", "index", ".html">>
       /\ pth = <<"/", "blog", ".html">> =>
            fullPath = root \o <<"/", "blog", ".html">>
       /\ pth[Len(pth)] = ".html" => fullPath = root \o pth
       /\ fullPath[Len(fullPath)] = ".html"

\* C21: fetchPage returns html or nothing; it returns html only when
\* page.goto resolved with a response, the status is below 300, the
\* selector wait, if WAIT_FOR_SELECTOR is set, completed, and
\* page.content() gave a document; when goto threw, the status is 300 or
\* more or the selector wait threw it returns html absent, whatever the
\* waits did.  It returns once page.close() has completed; a rejected
\* page.close() rejects the call, which then returns nothing.
C21_HtmlOnlyOnSuccess ==
  /\ fetchStage # "returned" => fetchResult = "none"
  /\ fetchStage = "rejected" => fetchClose = "throws"
  /\ fetchStage = "returned" =>
    /\ fetchResult \in {"present", "absent"}
    /\ fetchResult = "present" =>
         /\ fetchGoto = "ok"
         /\ fetchStatus < 300
         /\ fetchSelector \in {"unset", "found"}
         /\ fetchContent = "doc"
    /\ (fetchGoto = "throws" \/ fetchStatus >= 300 \/ fetchSelector = "throws")
         => fetchResult = "absent"

\* status 404 with the selector found and the delay waited: no html
C21_Witness ==
  /\ fetchStage = "returned"
  /\ fetchGoto = "ok"
  /\ fetchStatus = 404
  /\ fetchSelector = "found"
  /\ fetchWaitMs > 0
  /\ fetchResult = "absent"

\* C22: writeRenderedPage for a page with html first writes the page
\* file, at the mapped path without GZIP and at the mapped path plus
\* .gz with GZIP, and then nothing at the mapped path itself; with
\* COMPUTE_SCRIPT_HASHES it next writes one sidecar, named as the page
\* file with its .html or .html.gz ending replaced by .json; the 'saved'
\* event comes last; with both toggles off there is exactly one write.
C22_OutputArtifacts ==
  mapStage = "mapped" =>
    LET page == mappedPath(mapUrl, OUT_FOLDER)
        stem == SubSeq(page, 1, Len(page) - 1)
        writes == {k \in DOMAIN outLog : outLog[k].op = "write"}
    IN /\ page[Len(page)] = ".html"
       /\ outLog[1] = [op |-> "write",
                       path |-> IF gzip THEN page \o <<".gz">> ELSE page]
       /\ gzip => \A k \in writes : outLog[k].path # page
       /\ outLog[Len(outLog)] = [op |-> "saved", path |-> mapUrl]
       /\ writes = 1..(Len(outLog) - 1)
       /\ IF computeScriptHashes
          THEN /\ Len(outLog) = 3
               /\ outLog[2] = [op |-> "write", path |-> stem \o <<".json">>]
          ELSE Len(outLog) = 2

\* /blog with GZIP and COMPUTE_SCRIPT_HASHES: blog/index.html.gz, then
\* blog/index.json, then 'saved'
C22_Witness ==
  /\ mapStage = "mapped"
  /\ gzip
  /\ computeScriptHashes
  /\ mapUrl = SiteOrigin \o <<"/", "blog">>
  /\ OUT_FOLDER = <<>>
  /\ outLog =
       <<[op |-> "write",
          path |-> <<"rendered", "/", "blog", "/", "index", ".html", ".gz">>],
         [op |-> "write",
          path |-> <<"rendered", "/", "blog", "/", "index", ".json">>],
         [op |-> "saved", path |-> SiteOrigin \o <<"/", "blog">>]>>

\* C23: every dispatched list position had its fetchPage call given its
\* own list element; when writeRenderedPage has been called for it, the
\* url given to that call is the url its fetchPage call was given; and
\* the url of each 'saved' event is the url its position was fetched
\* with, wherever the cursor stands by then.
C23_OutcomePairing ==
  Launched =>
    /\ \A j \in Positions :
         /\ fetchArg[j] = IF Count(dispatchLog, j) > 0 THEN urls[j + 1] ELSE "none"
         /\ writeArg[j] = IF writeCalls[j] > 0 THEN fetchArg[j] ELSE "none"
    /\ \A k \in DOMAIN savedLog :
         /\ k \in DOMAIN rendered
         /\ rendered[k] = fetchArg[savedLog[k]]

\* the second page was written and saved after the cursor had moved on
\* to the third page, which has another url
C23_Witness ==
  /\ Launched
  /\ Len(urls) = 3
  /\ urls[2] # urls[3]
  /\ pathPointer = 2
  /\ st[1] = "saved"
  /\ html[1] = "present"
  /\ st[2] = "nav"
  /\ writeArg[1] = urls[2]
  /\ rendered[Len(rendered)] = urls[2]

\* C24: in a run over a list in which some url occurs twice, every
\* position is dispatched, handed to writeRenderedPage and saved at most
\* once, report.pagesRendered and rendered count the 'saved' events one
\* by one, the report is out exactly when as many 'saved' events as
\* list positions have been seen, by then every position has been
\* dispatched, written and saved once, and, no fault occurring, the run
\* does reach that point and ends.
C24_DuplicatesCountedSeparately ==
  /\ []((Launched /\ HasDuplicates) =>
          /\ \A j \in Positions :
               /\ Count(dispatchLog, j) <= 1
               /\ writeCalls[j] <= 1
               /\ savedCount[j] <= 1
               /\ savedCount[j] = Count(savedLog, j)
          /\ Len(rendered) = Len(savedLog)
          /\ report.pagesRendered = Len(savedLog)
          /\ reportsEmitted > 0 <=> Len(savedLog) = Len(urls)
          /\ reportsEmitted <= 1
          /\ reportsEmitted > 0 =>
               \A j \in Positions :
                 /\ Count(dispatchLog, j) = 1
                 /\ writeCalls[j] = 1
                 /\ savedCount[j] = 1)
  /\ ((Launched /\ HasDuplicates) ~> Done)

\* a finished run over three positions, the first and the third with the
\* same url, all three rendered with html, written and counted
C24_Witness ==
  /\ Done
  /\ Len(urls) = 3
  /\ urls[1] = urls[3]
  /\ urls[1] # urls[2]
  /\ report.pagesRendered = 3
  /\ written = {0, 1, 2}
  /\ \A j \in Positions : savedCount[j] = 1

\* C25: pathPointer never decreases; every renderNextUrl call either
\* dispatches one position or emits one 'done'; once the cursor has
\* reached the last position nothing more is dispatched, so 'done' has
\* been emitted once per call beyond the list; the report is emitted
\* only in a step in which a 'saved' event brings their number to the
\* list length, and 'done' events with 'saved' events outstanding leave
\* the run unfinalized.
C25_CursorExhaustion ==
  /\ [][pathPointer' >= pathPointer]_vars
  /\ [][pathPointer' - pathPointer =
          (Len(dispatchLog') - Len(dispatchLog)) + (doneEmits' - doneEmits)]_vars
  /\ [][(Launched /\ pathPointer >= Len(urls) - 1) =>
          dispatchLog' = dispatchLog]_vars
  /\ [](Launched =>
          doneEmits = IF pathPointer >= Len(urls)
                      THEN pathPointer - Len(urls) + 1
                      ELSE 0)
  /\ [][reportsEmitted' # reportsEmitted =>
          /\ Len(savedLog') = Len(savedLog) + 1
          /\ Len(savedLog') = Len(urls)]_vars
  /\ []((doneEmits > 0 /\ Len(savedLog) < Len(urls)) =>
          reportsEmitted = 0)

\* budget three over two pages: 'done' has been emitted twice while the
\* second page is still being rendered and no report is out
C25_Witness ==
  /\ Launched
  /\ maxSynchronous = 3
  /\ Len(urls) = 2
  /\ doneEmits = 2
  /\ st[1] = "nav"
  /\ reportsEmitted = 0
  /\ browser = "open"

====
